---- MODULE Spec2Model ----
(***************************************************************************)
(* SilentSlides text pipeline (src/src/text_processor.py, src/config.py). *)
(*                                                                         *)
(* A string is a sequence of one-character strings.  The external         *)
(* libraries are modelled by their contracts: SentenceTransformer.encode   *)
(* is a fixed function from sentence text to a vector, KMeans with         *)
(* random_state=42 and HDBSCAN are fixed functions from (matrix, k) to a   *)
(* label vector, numpy argsort is fixed per build.  The values of these    *)
(* functions are revealed lazily: the first use picks one, later uses of   *)
(* the same argument read it back.                                         *)
(***************************************************************************)
EXTENDS Integers, Sequences, FiniteSets, TLC

(***************************************************************************)
(* Bounds of the model and constants of the program                        *)
(***************************************************************************)
MaxPieces == 2
MaxChars == 5
MaxSentences == 6
MaxWords == 7

MIN_CLUSTER_SIZE == 2
MAX_TOPICS == 10
MAX_BULLETS_PER_SLIDE == 5
DefaultMaxWords == 6
MinSentenceWords == 3
TitleSlotAndSummarySlot == 2
NoiseLabel == -1
AutoClusterDivisor == 5
MinAutoClusters == 2

(***************************************************************************)
(* Characters and Python's str / re primitives                            *)
(***************************************************************************)
\* \s of the regular expressions and of str.strip / str.split
IsSpace(c) == c \in {" ", "\n", "\t"}

\* the class [.!?] of split_sentences
IsTerminator(c) == c \in {".", "!", "?"}

\* \w : letters, digits and the underscore
IsWordChar(c) == c \in {"a", "b", "c", "d", "e", "f", "g", "h", "i", "j",
                        "x", "y", "z", "0", "1", "_"}

\* the class [\w\s.,!?-] that clean_text keeps
IsKept(c) == IsWordChar(c) \/ IsSpace(c) \/ c \in {".", ",", "!", "?", "-"}

Indices(s) == [i \in 1..Len(s) |-> i]

SetMin(S) == CHOOSE m \in S : \A x \in S : m <= x
SetMax(S) == CHOOSE m \in S : \A x \in S : x <= m

\* re.sub(r'\s+', ' ', text) : every maximal run of whitespace becomes one
\* space
CollapseWhitespace(s) ==
    LET keep == SelectSeq(Indices(s),
                          LAMBDA i : ~(IsSpace(s[i]) /\ i > 1 /\ IsSpace(s[i - 1])))
    IN  [k \in 1..Len(keep) |-> IF IsSpace(s[keep[k]]) THEN " " ELSE s[keep[k]]]

\* re.sub(r'[^\w\s.,!?-]', '', text)
RemoveSpecial(s) == SelectSeq(s, IsKept)

\* str.rstrip(chars)
RStripSet(s, chars) ==
    LET stay == {i \in 1..Len(s) : s[i] \notin chars}
    IN  IF stay = {} THEN <<>> ELSE SubSeq(s, 1, SetMax(stay))

\* str.strip()
Strip(s) ==
    LET stay == {i \in 1..Len(s) : ~IsSpace(s[i])}
    IN  IF stay = {} THEN <<>> ELSE SubSeq(s, SetMin(stay), SetMax(stay))

\* str.split() : the maximal runs of non-whitespace characters
Words(s) ==
    LET first == SelectSeq(Indices(s),
                           LAMBDA i : ~IsSpace(s[i]) /\ (i = 1 \/ IsSpace(s[i - 1])))
        last == SelectSeq(Indices(s),
                          LAMBDA i : ~IsSpace(s[i]) /\ (i = Len(s) \/ IsSpace(s[i + 1])))
    IN  [k \in 1..Len(first) |-> SubSeq(s, first[k], last[k])]

\* re.split(r'[.!?]+', text) : the pieces before, between and after the
\* maximal runs of terminators, empty pieces included
ReSplit(s) ==
    LET runFirst == SelectSeq(Indices(s),
                       LAMBDA i : IsTerminator(s[i]) /\ (i = 1 \/ ~IsTerminator(s[i - 1])))
        runLast == SelectSeq(Indices(s),
                       LAMBDA i : IsTerminator(s[i]) /\ (i = Len(s) \/ ~IsTerminator(s[i + 1])))
    IN  [k \in 1..(Len(runFirst) + 1) |->
            SubSeq(s,
                   IF k = 1 THEN 1 ELSE runLast[k - 1] + 1,
                   IF k = Len(runFirst) + 1 THEN Len(s) ELSE runFirst[k] - 1)]

\* ' '.join(words)
RECURSIVE JoinSpace(_)
JoinSpace(ws) ==
    IF ws = <<>> THEN <<>>
    ELSE IF Len(ws) = 1 THEN ws[1]
    ELSE ws[1] \o <<" ">> \o JoinSpace(Tail(ws))

MapStrip(fs) == [k \in 1..Len(fs) |-> Strip(fs[k])]

NonEmptyStripped(f) == Strip(f) # <<>>

HasEnoughWords(s) == Len(Words(s)) >= MinSentenceWords

(***************************************************************************)
(* TextProcessor.clean_text and TextProcessor.split_sentences             *)
(***************************************************************************)
clean_text(text) == Strip(RemoveSpecial(CollapseWhitespace(text)))

\* faulty variant: the filter of very short sentences accepts two tokens
split_sentences_floor2(text) ==
    SelectSeq(MapStrip(SelectSeq(ReSplit(text), NonEmptyStripped)),
              LAMBDA s : Len(Words(s)) >= MinSentenceWords - 1)

split_sentences(text) ==
    SelectSeq(MapStrip(SelectSeq(ReSplit(text), NonEmptyStripped)),
              HasEnoughWords)


(***************************************************************************)
(* TextProcessor._shorten_sentence                                         *)
(***************************************************************************)
Ellipsis == <<".", ".", ".">>

\* faulty variant: the slice words[:max_words] taken one word too long
_shorten_sentence_slice7(sentence, max_words) ==
    IF Len(Words(sentence)) <= max_words
    THEN RStripSet(sentence, {".", ",", "!", "?"})
    ELSE JoinSpace(SubSeq(Words(sentence), 1, max_words + 1)) \o Ellipsis

_shorten_sentence(sentence, max_words) ==
    IF Len(Words(sentence)) <= max_words
    THEN RStripSet(sentence, {".", ",", "!", "?"})
    ELSE JoinSpace(SubSeq(Words(sentence), 1, max_words)) \o Ellipsis

(***************************************************************************)
(* Embeddings: rows are vectors with non-negative integer coordinates, the *)
(* centroid is kept as the sum of the rows (the mean is the sum scaled by  *)
(* 1/n, and the cosine does not change under positive scaling).            *)
(***************************************************************************)
Vecs == {<<1, 0>>, <<1, 1>>}

Dot(a, b) == a[1] * b[1] + a[2] * b[2]

RECURSIVE VecSum(_)
VecSum(rows) ==
    IF rows = <<>> THEN <<0, 0>>
    ELSE LET r == VecSum(Tail(rows))
         IN  <<rows[1][1] + r[1], rows[1][2] + r[2]>>

\* cosine_similarity(a, c) < cosine_similarity(b, c), a and b non-zero
\* with non-negative coordinates, c a sum of such vectors
SimLess(a, b, c) ==
    Dot(a, c) * Dot(a, c) * Dot(b, b) < Dot(b, c) * Dot(b, c) * Dot(a, a)

\* faulty variant: the last index holding the maximum
ArgMaxLast(rows, c) ==
    CHOOSE i \in 1..Len(rows) :
        /\ \A j \in 1..Len(rows) : ~SimLess(rows[i], rows[j], c)
        /\ \A j \in (i + 1)..Len(rows) : SimLess(rows[j], rows[i], c)

\* numpy argmax: the first index holding the maximum
ArgMax(rows, c) ==
    CHOOSE i \in 1..Len(rows) :
        /\ \A j \in 1..Len(rows) : ~SimLess(rows[i], rows[j], c)
        /\ \A j \in 1..(i - 1) : SimLess(rows[j], rows[i], c)

\* numpy argsort, ascending.  Its default kind is not a stable sort: which
\* of two equal scores comes first is fixed by the build ("asc": by index,
\* "desc": by index reversed).
Before(rows, c, ties, i, j) ==
    \/ SimLess(rows[i], rows[j], c)
    \/ /\ ~SimLess(rows[j], rows[i], c)
       /\ IF ties = "asc" THEN i < j ELSE i > j

RECURSIVE ArgSortOf(_, _, _, _)
ArgSortOf(rows, c, ties, left) ==
    IF left = {} THEN <<>>
    ELSE LET m == CHOOSE i \in left :
                      \A j \in left \ {i} : Before(rows, c, ties, i, j)
         IN  <<m>> \o ArgSortOf(rows, c, ties, left \ {m})

ArgSort(rows, c, ties) == ArgSortOf(rows, c, ties, 1..Len(rows))

Reverse(s) == [i \in 1..Len(s) |-> s[Len(s) + 1 - i]]

\* s[-k:] for 0 < k
LastK(s, k) == IF Len(s) <= k THEN s ELSE SubSeq(s, Len(s) - k + 1, Len(s))

(***************************************************************************)
(* A call either returns a value or raises                                 *)
(***************************************************************************)
Returned(v) == [raised |-> FALSE, value |-> v]
Raised(e) == [raised |-> TRUE, value |-> e]

(***************************************************************************)
(* TextProcessor.generate_topic_title and TextProcessor.rank_bullets.      *)
(* Indices are 1-based here: a[i] of the code is a[i + 1].                 *)
(***************************************************************************)
TopicLiteral == <<"T", "o", "p", "i", "c">>

generate_topic_title(sentences, embeddings) ==
    IF sentences = <<>> THEN Returned(TopicLiteral)
    ELSE IF Len(sentences) = 1
    THEN Returned(_shorten_sentence(sentences[1], DefaultMaxWords))
    ELSE IF embeddings = <<>> THEN Raised("ValueError")
    ELSE LET best_idx == ArgMax(embeddings, VecSum(embeddings))
         IN  IF best_idx > Len(sentences) THEN Raised("IndexError")
             ELSE Returned(_shorten_sentence(sentences[best_idx], DefaultMaxWords))

\* faulty variant: the slice [-max_bullets:] taken one element too long
rank_bullets_slice6(sentences, embeddings, max_bullets, ties) ==
    IF Len(sentences) <= max_bullets THEN Returned(sentences)
    ELSE IF embeddings = <<>> THEN Raised("ValueError")
    ELSE LET top_indices ==
                 Reverse(LastK(ArgSort(embeddings, VecSum(embeddings), ties),
                               max_bullets + 1))
         IN  IF \E k \in 1..Len(top_indices) : top_indices[k] > Len(sentences)
             THEN Raised("IndexError")
             ELSE Returned([k \in 1..Len(top_indices) |-> sentences[top_indices[k]]])

\* faulty variant: the reversal [::-1] is missing
rank_bullets_unreversed(sentences, embeddings, max_bullets, ties) ==
    IF Len(sentences) <= max_bullets THEN Returned(sentences)
    ELSE IF embeddings = <<>> THEN Raised("ValueError")
    ELSE LET top_indices ==
                 LastK(ArgSort(embeddings, VecSum(embeddings), ties), max_bullets)
         IN  IF \E k \in 1..Len(top_indices) : top_indices[k] > Len(sentences)
             THEN Raised("IndexError")
             ELSE Returned([k \in 1..Len(top_indices) |-> sentences[top_indices[k]]])

rank_bullets(sentences, embeddings, max_bullets, ties) ==
    IF Len(sentences) <= max_bullets THEN Returned(sentences)
    ELSE IF embeddings = <<>> THEN Raised("ValueError")
    ELSE LET top_indices ==
                 Reverse(LastK(ArgSort(embeddings, VecSum(embeddings), ties),
                               max_bullets))
         IN  IF \E k \in 1..Len(top_indices) : top_indices[k] > Len(sentences)
             THEN Raised("IndexError")
             ELSE Returned([k \in 1..Len(top_indices) |-> sentences[top_indices[k]]])

(***************************************************************************)
(* TextProcessor.generate_embeddings: model.encode is a function of the    *)
(* sentence text; m is that function on the sentences met so far           *)
(***************************************************************************)
RangeOf(s) == {s[i] : i \in DOMAIN s}

generate_embeddings(sents, m) ==
    IF sents = <<>> THEN <<>> ELSE [i \in 1..Len(sents) |-> m[sents[i]]]

\* the encoders that agree with m and also cover the sentences of sents
Encoders(sents, m) ==
    {m @@ ext : ext \in [RangeOf(sents) \ DOMAIN m -> Vecs]}

(***************************************************************************)
(* TextProcessor.cluster_sentences                                         *)
(***************************************************************************)
Min(a, b) == IF a <= b THEN a ELSE b
Max(a, b) == IF a >= b THEN a ELSE b

\* faulty variant: at least 3 clusters asked for
AutoClustersMin3(n) ==
    Min(MAX_TOPICS, Max(MinAutoClusters + 1, n \div AutoClusterDivisor))

\* n_clusters when the caller gives none
AutoClusters(n) ==
    Min(MAX_TOPICS, Max(MinAutoClusters, n \div AutoClusterDivisor))

\* the default of the n_clusters argument, and a value given by the caller
None == [none |-> TRUE]

Given(k) == [none |-> FALSE, value |-> k]

\* n_clusters after "if n_clusters is None: n_clusters = ..."
TargetClusters(n, target) ==
    IF target.none THEN AutoClusters(n) ELSE target.value

\* faulty variant: n_clusters handed to KMeans as it is
KMeansKUncapped(n_clusters, n) == n_clusters

\* n_clusters handed to KMeans
KMeansK(n_clusters, n) == Min(n_clusters, n)

CountOf(labels, c) == Cardinality({i \in DOMAIN labels : labels[i] = c})

MaxLabel(labels) ==
    CHOOSE m \in RangeOf(labels) : \A x \in RangeOf(labels) : x <= m

\* hdbscan.HDBSCAN(min_cluster_size, metric='euclidean').fit_predict on n
\* rows: labels 0..m-1 and -1 for noise, every cluster with at least
\* min_cluster_size rows, and never exactly one cluster (the root of the
\* condensed tree is not selected)
HdbscanLabelings(n) ==
    {l \in [1..n -> NoiseLabel..((n \div MIN_CLUSTER_SIZE) - 1)] :
        /\ MaxLabel(l) # 0
        /\ \A c \in 0..MaxLabel(l) : CountOf(l, c) >= MIN_CLUSTER_SIZE}

\* KMeans(n_clusters=k).fit_predict on n rows: labels in 0..k-1
KMeansLabelings(n, k) == [1..n -> 0..(k - 1)]

\* faulty variant: random_state left unset, every fit draws its own seed
KMeansFitUnseeded(X, k, memo) == KMeansLabelings(Len(X), k)

\* KMeans(n_clusters=k, random_state=42, n_init=10).fit_predict(X): the same
\* labels on every call with the same X and k
KMeansFit(X, k, memo) ==
    IF <<"kmeans", X, k>> \in DOMAIN memo
    THEN {memo[<<"kmeans", X, k>>]}
    ELSE KMeansLabelings(Len(X), k)

HdbscanFit(X, memo) ==
    IF <<"hdbscan", X>> \in DOMAIN memo
    THEN {memo[<<"hdbscan", X>>]}
    ELSE HdbscanLabelings(Len(X))

\* clusters[label].append(sentence), with the dict kept in insertion order
AppendTo(clusters, label, sentence) ==
    IF \E i \in DOMAIN clusters : clusters[i].id = label
    THEN [i \in DOMAIN clusters |->
            IF clusters[i].id = label
            THEN [clusters[i] EXCEPT !.sentences = Append(@, sentence)]
            ELSE clusters[i]]
    ELSE Append(clusters, [id |-> label, sentences |-> <<sentence>>])

\* faulty variant: noise sentences are skipped instead of getting their own cluster
RECURSIVE GroupByLabelDropNoise(_, _, _, _)
GroupByLabelDropNoise(sents, labels, idx, clusters) ==
    IF idx > Len(labels) THEN clusters
    ELSE IF labels[idx] = NoiseLabel
    THEN GroupByLabelDropNoise(sents, labels, idx + 1, clusters)
    ELSE GroupByLabelDropNoise(sents, labels, idx + 1,
                               AppendTo(clusters, labels[idx], sents[idx]))

\* faulty variant: noise sentences get the id max(labels), without the + 1
RECURSIVE GroupByLabelNoiseAtMax(_, _, _, _)
GroupByLabelNoiseAtMax(sents, labels, idx, clusters) ==
    IF idx > Len(labels) THEN clusters
    ELSE LET label == IF labels[idx] = NoiseLabel
                      THEN MaxLabel(labels)
                      ELSE labels[idx]
         IN  GroupByLabelNoiseAtMax(sents, labels, idx + 1,
                                    AppendTo(clusters, label, sents[idx]))

\* the loop "for idx, label in enumerate(labels)"
RECURSIVE GroupByLabel(_, _, _, _)
GroupByLabel(sents, labels, idx, clusters) ==
    IF idx > Len(labels) THEN clusters
    ELSE LET label == IF labels[idx] = NoiseLabel
                      THEN MaxLabel(labels) + 1
                      ELSE labels[idx]
         IN  GroupByLabel(sents, labels, idx + 1,
                          AppendTo(clusters, label, sents[idx]))

\* the label vectors the configured clusterer can return for X
FitPredict(method, available, X, n_clusters, memo) ==
    IF method = "hdbscan" /\ available
    THEN HdbscanFit(X, memo)
    ELSE KMeansFit(X, KMeansK(n_clusters, Len(X)), memo)

FitKey(method, available, X, n_clusters) ==
    IF method = "hdbscan" /\ available
    THEN <<"hdbscan", X>>
    ELSE <<"kmeans", X, KMeansK(n_clusters, Len(X))>>

\* cluster_sentences(sentences, embeddings) given the labels of the fit
cluster_sentences(sents, labels) ==
    IF Len(sents) < 2 THEN <<[id |-> 0, sentences |-> sents]>>
    ELSE GroupByLabel(sents, labels, 1, <<>>)

(***************************************************************************)
(* TextProcessor.process_text: the loop over the clusters and the sort     *)
(***************************************************************************)
\* [i for i, s in enumerate(sentences) if s in cluster_sentences]
ClusterIndices(sents, cluster_sents) ==
    SelectSeq([i \in 1..Len(sents) |-> i],
              LAMBDA i : sents[i] \in RangeOf(cluster_sents))

\* embeddings[cluster_indices]
TakeRows(embeddings, indices) ==
    [k \in 1..Len(indices) |-> embeddings[indices[k]]]

\* one pass of the loop body: the topic of a cluster, or the exception
TopicOf(cluster, sents, embeddings, ties) ==
    LET cluster_embeddings ==
            TakeRows(embeddings, ClusterIndices(sents, cluster.sentences))
        title == generate_topic_title(cluster.sentences, cluster_embeddings)
        bullets == rank_bullets(cluster.sentences, cluster_embeddings,
                                MAX_BULLETS_PER_SLIDE, ties)
    IN  IF title.raised THEN title
        ELSE IF bullets.raised THEN bullets
        ELSE Returned([id |-> cluster.id,
                       title |-> title.value,
                       bullets |-> bullets.value,
                       sentence_count |-> Len(cluster.sentences)])

\* what argsort does with equal scores: known once argsort has run on a
\* cluster of more than max_bullets sentences, and the same from then on
ArgsortBuilds(cs, known) ==
    IF known # "unmet" THEN {known}
    ELSE IF \E i \in DOMAIN cs : Len(cs[i].sentences) > MAX_BULLETS_PER_SLIDE
    THEN {"asc", "desc"}
    ELSE {"unmet"}

\* faulty variant: a cluster whose synthesis raises is skipped (try/except
\* around the loop body)
RECURSIVE TopicsOfSkippingFailures(_, _, _, _, _)
TopicsOfSkippingFailures(clusters, sents, embeddings, ties, topics) ==
    IF clusters = <<>> THEN Returned(topics)
    ELSE LET t == TopicOf(clusters[1], sents, embeddings, ties)
         IN  TopicsOfSkippingFailures(Tail(clusters), sents, embeddings, ties,
                 IF t.raised THEN topics ELSE Append(topics, t.value))

RECURSIVE TopicsOf(_, _, _, _, _)
TopicsOf(clusters, sents, embeddings, ties, topics) ==
    IF clusters = <<>> THEN Returned(topics)
    ELSE LET t == TopicOf(clusters[1], sents, embeddings, ties)
         IN  IF t.raised THEN t
             ELSE TopicsOf(Tail(clusters), sents, embeddings, ties,
                           Append(topics, t.value))

\* list.sort(key, reverse=True) is stable: equal keys keep their order
RECURSIVE InsertByCount(_, _)
InsertByCount(sorted, t) ==
    IF sorted = <<>> THEN <<t>>
    ELSE IF sorted[1].sentence_count >= t.sentence_count
         THEN <<sorted[1]>> \o InsertByCount(Tail(sorted), t)
         ELSE <<t>> \o sorted

\* faulty variant: sorted ascending (reverse=True forgotten)
RECURSIVE InsertByCountAscending(_, _)
InsertByCountAscending(sorted, t) ==
    IF sorted = <<>> THEN <<t>>
    ELSE IF sorted[1].sentence_count <= t.sentence_count
         THEN <<sorted[1]>> \o InsertByCountAscending(Tail(sorted), t)
         ELSE <<t>> \o sorted

RECURSIVE SortTopicsAscending(_)
SortTopicsAscending(topics) ==
    IF topics = <<>> THEN <<>>
    ELSE InsertByCountAscending(
             SortTopicsAscending(SubSeq(topics, 1, Len(topics) - 1)),
             topics[Len(topics)])

RECURSIVE SortTopics(_)
SortTopics(topics) ==
    IF topics = <<>> THEN <<>>
    ELSE InsertByCount(SortTopics(SubSeq(topics, 1, Len(topics) - 1)),
                       topics[Len(topics)])

EmptyResult == [topics |-> <<>>, slide_count |-> 0, total_sentences |-> 0]

\* faulty variant: total_sentences counts the topics
FinalResultCountingTopics(topics, sents) ==
    [topics |-> topics,
     slide_count |-> Len(topics) + TitleSlotAndSummarySlot,
     total_sentences |-> Len(topics)]

FinalResult(topics, sents) ==
    [topics |-> topics,
     slide_count |-> Len(topics) + TitleSlotAndSummarySlot,
     total_sentences |-> Len(sents)]

(***************************************************************************)
(* Raw texts                                                               *)
(***************************************************************************)
\* "a b c."
PieceShort == <<"a", " ", "b", " ", "c", ".">>
\* " d, e f g h i j!?"
PieceLong == <<" ", "d", ",", " ", "e", " ", "f", " ", "g", " ", "h", " ",
               "i", " ", "j", "!", "?">>
\* "hi x." : two tokens
PieceTwoWords == <<"h", "i", " ", "x", ".">>
\* "#a\tb # c,?" : special characters, a tab, a trailing comma
PieceSpecial == <<"#", "a", "\t", "b", " ", "#", " ", "c", ",", "?">>

Pieces == {PieceShort, PieceLong, PieceTwoWords, PieceSpecial}

RECURSIVE Concat(_)
Concat(ps) == IF ps = <<>> THEN <<>> ELSE ps[1] \o Concat(Tail(ps))

RECURSIVE Repeat(_, _)
Repeat(p, k) == IF k = 0 THEN <<>> ELSE p \o Repeat(p, k - 1)

SeqsUpTo(S, n) == UNION {[1..k -> S] : k \in 0..n}

PieceTexts == {Concat(ps) : ps \in SeqsUpTo(Pieces, MaxPieces)}

\* i short sentences followed by j long ones, at most MaxPieces + 1 of these
RepeatedTexts ==
    {Repeat(PieceShort, p[1]) \o Repeat(PieceLong, p[2]) :
        p \in {q \in (0..MaxSentences) \X (0..(MaxPieces + 1)) :
                  q[1] + q[2] \in 1..MaxSentences}}

CharTexts == SeqsUpTo({"a", " ", "."}, MaxChars)

Texts == PieceTexts \cup RepeatedTexts \cup CharTexts

(***************************************************************************)
(* State                                                                   *)
(***************************************************************************)
VARIABLES
    CLUSTERING_METHOD,  \* config.CLUSTERING_METHOD
    HDBSCAN_AVAILABLE,  \* whether "import hdbscan" succeeded
    argsortTies,        \* how this build's argsort orders equal scores
    model,              \* self.model.encode on the sentences met so far
    fits,               \* the clusterer's labels on the inputs met so far
    pc,                 \* where the current process_text call stands
    text,               \* its argument
    n_clusters,         \* the n_clusters argument of cluster_sentences
    cleaned,            \* the local "cleaned"
    sentences,          \* the local "sentences"
    embeddings,         \* the local "embeddings"
    labels,             \* the local "labels" of cluster_sentences
    clusters,           \* the local "clusters", in insertion order
    topics,             \* the local "topics"
    result,             \* the returned dict, or the exception raised
    firstResult         \* what the previous call on this text returned

vars == <<CLUSTERING_METHOD, HDBSCAN_AVAILABLE, argsortTies, model, fits, pc,
          text, n_clusters, cleaned, sentences, embeddings, labels, clusters, topics,
          result, firstResult>>

config == <<CLUSTERING_METHOD, HDBSCAN_AVAILABLE, argsortTies>>

NoResult == [none |-> TRUE]

Init ==
    /\ CLUSTERING_METHOD \in {"hdbscan", "kmeans"}
    /\ HDBSCAN_AVAILABLE \in BOOLEAN
    /\ argsortTies = "unmet"
    /\ model = <<>>
    /\ fits = <<>>
    /\ pc = "start"
    /\ text \in Texts
    /\ n_clusters = None
    /\ cleaned = <<>>
    /\ sentences = <<>>
    /\ embeddings = <<>>
    /\ labels = <<>>
    /\ clusters = <<>>
    /\ topics = <<>>
    /\ result = NoResult
    /\ firstResult = NoResult

(***************************************************************************)
(* The steps of process_text                                               *)
(***************************************************************************)
\* cleaned = self.clean_text(text)
Clean ==
    /\ pc = "start"
    /\ cleaned' = clean_text(text)
    /\ pc' = "cleaned"
    /\ UNCHANGED <<labels, config, model, fits, text, n_clusters, sentences, embeddings, clusters,
                   topics, result, firstResult>>

\* sentences = self.split_sentences(cleaned)
Segment ==
    /\ pc = "cleaned"
    /\ sentences' = split_sentences(cleaned)
    /\ pc' = "segmented"
    /\ UNCHANGED <<labels, config, model, fits, text, n_clusters, cleaned, embeddings, clusters,
                   topics, result, firstResult>>

\* if not sentences: return {...}
ReturnEmpty ==
    /\ pc = "segmented"
    /\ sentences = <<>>
    /\ result' = EmptyResult
    /\ pc' = "done"
    /\ UNCHANGED <<labels, config, model, fits, text, n_clusters, cleaned, sentences, embeddings,
                   clusters, topics, firstResult>>

\* faulty variant: the "if not sentences" return is missing, the embedding step
\* runs on whatever segmentation gave
EmbedEvenIfEmpty ==
    /\ pc = "segmented"
    /\ \E m \in Encoders(sentences, model) :
        /\ model' = m
        /\ embeddings' = generate_embeddings(sentences, m)
    /\ pc' = "embedded"
    /\ UNCHANGED <<labels, config, fits, text, n_clusters, cleaned, sentences, clusters, topics,
                   result, firstResult>>

\* embeddings = self.generate_embeddings(sentences)
Embed ==
    /\ pc = "segmented"
    /\ sentences # <<>>
    /\ \E m \in Encoders(sentences, model) :
        /\ model' = m
        /\ embeddings' = generate_embeddings(sentences, m)
    /\ pc' = "embedded"
    /\ UNCHANGED <<labels, config, fits, text, n_clusters, cleaned, sentences, clusters, topics,
                   result, firstResult>>

\* self.model.encode raises (the model cannot produce vectors)
EmbedFails ==
    /\ pc = "segmented"
    /\ sentences # <<>>
    /\ result' = Raised("EmbeddingFailure")
    /\ pc' = "raised"
    /\ UNCHANGED <<labels, config, model, fits, text, n_clusters, cleaned, sentences, embeddings,
                   clusters, topics, firstResult>>

\* clusters = self.cluster_sentences(sentences, embeddings)
Cluster ==
    /\ pc = "embedded"
    /\ IF Len(sentences) < 2
       THEN /\ clusters' = cluster_sentences(sentences, <<>>)
            /\ labels' = <<>>
            /\ fits' = fits
       ELSE \E ls \in FitPredict(CLUSTERING_METHOD, HDBSCAN_AVAILABLE,
                                 embeddings,
                                 TargetClusters(Len(sentences), n_clusters),
                                 fits) :
            /\ labels' = ls
            /\ clusters' = cluster_sentences(sentences, ls)
            /\ fits' = (FitKey(CLUSTERING_METHOD, HDBSCAN_AVAILABLE, embeddings,
                               TargetClusters(Len(sentences), n_clusters))
                            :> ls) @@ fits
    /\ pc' = "clustered"
    /\ UNCHANGED <<config, model, text, n_clusters, cleaned, sentences, embeddings, topics,
                   result, firstResult>>

\* the clusterer's fit_predict raises
ClusterFails ==
    /\ pc = "embedded"
    /\ Len(sentences) >= 2
    /\ result' = Raised("ClusteringFailure")
    /\ pc' = "raised"
    /\ UNCHANGED <<labels, config, model, fits, text, n_clusters, cleaned, sentences, embeddings,
                   clusters, topics, firstResult>>

\* the loop "for cluster_id, cluster_sentences in clusters.items()"
Synthesize ==
    /\ pc = "clustered"
    /\ \E ties \in ArgsortBuilds(clusters, argsortTies) :
        /\ argsortTies' = ties
        /\ LET r == TopicsOf(clusters, sentences, embeddings, ties, <<>>)
           IN  IF r.raised
               THEN /\ result' = r
                    /\ pc' = "raised"
                    /\ topics' = topics
               ELSE /\ topics' = r.value
                    /\ pc' = "synthesized"
                    /\ result' = result
    /\ UNCHANGED <<labels, CLUSTERING_METHOD, HDBSCAN_AVAILABLE, model, fits, text,
                   n_clusters, cleaned, sentences, embeddings, clusters,
                   firstResult>>

\* topics.sort(...); return {...}
SortAndReturn ==
    /\ pc = "synthesized"
    /\ topics' = SortTopics(topics)
    /\ result' = FinalResult(SortTopics(topics), sentences)
    /\ pc' = "done"
    /\ UNCHANGED <<labels, config, model, fits, text, n_clusters, cleaned, sentences, embeddings,
                   clusters, firstResult>>

\* the caller invokes process_text again on the same raw text; the locals
\* of the finished call are gone, the loaded model and the libraries stay
Reinvoke ==
    /\ pc = "done"
    /\ firstResult = NoResult
    /\ firstResult' = result
    /\ pc' = "start"
    /\ cleaned' = <<>>
    /\ sentences' = <<>>
    /\ embeddings' = <<>>
    /\ labels' = <<>>
    /\ clusters' = <<>>
    /\ topics' = <<>>
    /\ result' = NoResult
    /\ UNCHANGED <<config, model, fits, text, n_clusters>>

Next ==
    \/ Clean
    \/ Segment
    \/ ReturnEmpty
    \/ Embed
    \/ EmbedFails
    \/ Cluster
    \/ ClusterFails
    \/ Synthesize
    \/ SortAndReturn

Spec == Init /\ [][Next]_vars

\* two calls on the same text, under the fixed-k method
InitRerun == Init /\ CLUSTERING_METHOD = "kmeans"

NextRerun == Next \/ Reinvoke

SpecRerun == InitRerun /\ [][NextRerun]_vars

(***************************************************************************)
(* process_text on longer texts under HDBSCAN: up to MaxMany distinct      *)
(* sentences, whose embeddings come in pairs, the two of a pair at         *)
(* distance 1 and different pairs at distance 2 or more.  The encoder and  *)
(* the clusterer are fixed from the start: HDBSCAN with min_cluster_size 2 *)
(* makes each pair a cluster, leaves a sentence without partner as noise,  *)
(* and with fewer than two pairs finds no cluster at all.                  *)
(***************************************************************************)
MaxMany == 22

ManyLetters == <<"a", "b", "d", "e", "f">>

\* the k-th sentence as segmented, "a a c", "a b c", ..., and as written
ManySentence(k) ==
    <<ManyLetters[((k - 1) \div 5) + 1], " ", ManyLetters[((k - 1) % 5) + 1],
      " ", "c">>

ManyText(n) == Concat([k \in 1..n |-> ManySentence(k) \o <<".", " ">>])

\* model.encode on the k-th sentence
ManyVec(k) == <<2 * ((k + 1) \div 2), 1 + ((k + 1) % 2)>>

\* HDBSCAN's labels on the first n of these rows
PairLabels(n) ==
    [k \in 1..n |->
        IF n < 2 * MIN_CLUSTER_SIZE \/ (k = n /\ n % 2 = 1)
        THEN NoiseLabel
        ELSE ((k + 1) \div 2) - 1]

InitMany ==
    /\ CLUSTERING_METHOD = "hdbscan"
    /\ HDBSCAN_AVAILABLE = TRUE
    /\ argsortTies = "unmet"
    /\ pc = "start"
    /\ \E n \in 0..MaxMany :
        /\ text = ManyText(n)
        /\ model = [s \in {ManySentence(k) : k \in 1..n} |->
                       ManyVec(CHOOSE k \in 1..n : ManySentence(k) = s)]
        /\ fits = IF n < 2 THEN <<>>
                  ELSE <<"hdbscan", [k \in 1..n |-> ManyVec(k)]>> :> PairLabels(n)
    /\ n_clusters = None
    /\ cleaned = <<>>
    /\ sentences = <<>>
    /\ embeddings = <<>>
    /\ labels = <<>>
    /\ clusters = <<>>
    /\ topics = <<>>
    /\ result = NoResult
    /\ firstResult = NoResult

SpecMany == InitMany /\ [][Next]_vars

(***************************************************************************)
(* _shorten_sentence on its own: one call on a sentence built from up to   *)
(* MaxWords tokens.  The argument is held in "text", the returned title in *)
(* "result".                                                               *)
(***************************************************************************)
ShortenTokens == {<<"a">>, <<"b", ",">>, <<"?", "!">>}

RECURSIVE JoinWith(_, _)
JoinWith(ws, sep) ==
    IF ws = <<>> THEN <<>>
    ELSE IF Len(ws) = 1 THEN ws[1]
    ELSE ws[1] \o sep \o JoinWith(Tail(ws), sep)

ShortenInputs ==
    {JoinWith(ws, sep) \o trailer :
        ws \in SeqsUpTo(ShortenTokens, MaxWords),
        sep \in {<<" ">>, <<" ", "\t">>},
        trailer \in {<<>>, <<" ">>}}

InitShorten ==
    /\ CLUSTERING_METHOD = "hdbscan"
    /\ HDBSCAN_AVAILABLE = TRUE
    /\ argsortTies = "unmet"
    /\ model = <<>>
    /\ fits = <<>>
    /\ pc = "shorten"
    /\ text \in ShortenInputs
    /\ n_clusters = None
    /\ cleaned = <<>>
    /\ sentences = <<>>
    /\ embeddings = <<>>
    /\ labels = <<>>
    /\ clusters = <<>>
    /\ topics = <<>>
    /\ result = NoResult
    /\ firstResult = NoResult

\* self._shorten_sentence(sentence) with the default max_words
ShortenCall ==
    /\ pc = "shorten"
    /\ result' = [title |-> _shorten_sentence(text, DefaultMaxWords)]
    /\ pc' = "shortened"
    /\ UNCHANGED <<config, model, fits, text, n_clusters, cleaned, sentences, embeddings,
                   labels, clusters, topics, firstResult>>

SpecShorten == InitShorten /\ [][ShortenCall]_vars

(***************************************************************************)
(* generate_topic_title and rank_bullets on their own: one call of each on *)
(* a cluster of up to MaxCluster distinct sentences and up to MaxCluster   *)
(* embedding rows, the two lengths chosen independently.  The sentences    *)
(* are held in "sentences", the rows in "embeddings", what the two calls   *)
(* gave in "result".                                                       *)
(***************************************************************************)
MaxCluster == 7

SynthVecs == Vecs \cup {<<0, 1>>}

SynthInitials == <<"p", "q", "r", "s", "t", "u", "v", "w", "x", "y">>

\* the k-th sentence: "p b c.", "q b c d e f g!", "r b c.", ...
SynthSentence(k) ==
    <<SynthInitials[k]>> \o
    (IF k % 2 = 0
     THEN <<" ", "b", " ", "c", " ", "d", " ", "e", " ", "f", " ", "g", "!">>
     ELSE <<" ", "b", " ", "c", ".">>)

InitSynth ==
    /\ CLUSTERING_METHOD = "hdbscan"
    /\ HDBSCAN_AVAILABLE = TRUE
    /\ argsortTies \in {"asc", "desc"}
    /\ model = <<>>
    /\ fits = <<>>
    /\ pc = "synthesize"
    /\ text = <<>>
    /\ n_clusters = None
    /\ cleaned = <<>>
    /\ \E n \in 0..MaxCluster : sentences = [k \in 1..n |-> SynthSentence(k)]
    /\ embeddings \in SeqsUpTo(SynthVecs, MaxCluster)
    /\ labels = <<>>
    /\ clusters = <<>>
    /\ topics = <<>>
    /\ result = NoResult
    /\ firstResult = NoResult

\* title = self.generate_topic_title(...); bullets = self.rank_bullets(...)
SynthesizeCall ==
    /\ pc = "synthesize"
    /\ result' = [title |-> generate_topic_title(sentences, embeddings),
                  bullets |-> rank_bullets(sentences, embeddings,
                                           MAX_BULLETS_PER_SLIDE, argsortTies)]
    /\ pc' = "synthesis returned"
    /\ UNCHANGED <<config, model, fits, text, n_clusters, cleaned, sentences, embeddings,
                   labels, clusters, topics, firstResult>>

SpecSynth == InitSynth /\ [][SynthesizeCall]_vars

(***************************************************************************)
(* The cluster count of the KMeans branch of cluster_sentences on its own: *)
(* 2 to MaxCount sentences, n_clusters left out or given as 1..MaxTarget.  *)
(* The count handed to KMeans is held in "result".                         *)
(***************************************************************************)
MaxCount == 56

MaxTarget == 12

InitRequest ==
    /\ CLUSTERING_METHOD = "kmeans"
    /\ HDBSCAN_AVAILABLE \in BOOLEAN
    /\ argsortTies = "unmet"
    /\ model = <<>>
    /\ fits = <<>>
    /\ pc = "cluster count"
    /\ text = <<>>
    /\ n_clusters \in {None} \cup {Given(k) : k \in 1..MaxTarget}
    /\ cleaned = <<>>
    /\ \E n \in 2..MaxCount : sentences = [k \in 1..n |-> <<"a", " ", "b", " ", "c">>]
    /\ embeddings = <<>>
    /\ labels = <<>>
    /\ clusters = <<>>
    /\ topics = <<>>
    /\ result = NoResult
    /\ firstResult = NoResult

\* lines 84-85 and 96: the n_clusters that KMeans is built with
RequestClusters ==
    /\ pc = "cluster count"
    /\ result' = [n_clusters |->
                      KMeansK(TargetClusters(Len(sentences), n_clusters),
                              Len(sentences))]
    /\ pc' = "cluster count known"
    /\ UNCHANGED <<config, model, fits, text, n_clusters, cleaned, sentences,
                   embeddings, labels, clusters, topics, firstResult>>

SpecRequest == InitRequest /\ [][RequestClusters]_vars

(***************************************************************************)
(* Properties                                                              *)
(***************************************************************************)
Count(seq, x) == Cardinality({i \in DOMAIN seq : seq[i] = x})

RECURSIVE SumOfCounts(_)
SumOfCounts(ts) ==
    IF ts = <<>> THEN 0 ELSE ts[1].sentence_count + SumOfCounts(Tail(ts))

RECURSIVE TotalClustered(_)
TotalClustered(cs) ==
    IF cs = <<>> THEN 0 ELSE Len(cs[1].sentences) + TotalClustered(Tail(cs))

ClusterOf(id) == clusters[CHOOSE i \in DOMAIN clusters : clusters[i].id = id]

UsesHdbscan == CLUSTERING_METHOD = "hdbscan" /\ HDBSCAN_AVAILABLE

AfterClustering == pc \in {"clustered", "synthesized", "done"}

\* C1: after cluster_sentences every input sentence is in exactly one
\* cluster: the cluster ids are distinct and each sentence text occurs in
\* the clusters, taken together, exactly as often as in the input list.
C1_ClustersPartitionSentences ==
    AfterClustering =>
        /\ \A i, j \in DOMAIN clusters :
               clusters[i].id = clusters[j].id => i = j
        /\ TotalClustered(clusters) = Len(sentences)
        /\ \A s \in RangeOf(sentences) :
               Count(sentences, s) =
                   TotalClustered([i \in DOMAIN clusters |->
                       [sentences |-> SelectSeq(clusters[i].sentences,
                                                LAMBDA x : x = s)]])

\* C1 witness: a density-based fit with noise next to two genuine clusters,
\* and one sentence text occurring twice
C1_Witness ==
    /\ pc = "clustered"
    /\ UsesHdbscan
    /\ \E i \in DOMAIN labels : labels[i] = NoiseLabel
    /\ \E i \in DOMAIN labels : labels[i] = 1
    /\ Len(clusters) = 3
    /\ \E i, j \in DOMAIN sentences : i # j /\ sentences[i] = sentences[j]

\* C2: the returned total_sentences is the number of segmented sentences
\* and the sentence_count values of the returned topics sum to it.
C2_TotalsAgree ==
    pc = "done" =>
        /\ result.total_sentences = Len(sentences)
        /\ SumOfCounts(result.topics) = result.total_sentences

C2_Witness ==
    /\ pc = "done"
    /\ Len(result.topics) >= 2
    /\ result.total_sentences >= 4
    /\ \E i \in DOMAIN result.topics : result.topics[i].sentence_count >= 2

IsBlank(t) == \A i \in DOMAIN t : IsSpace(t[i])

\* C3 as claimed: empty or whitespace-only text gives zero topics,
\* total_sentences 0 and slide_count 2.
C3_EmptyTextTwoSlides ==
    (pc = "done" /\ IsBlank(text)) =>
        /\ result.topics = <<>>
        /\ result.total_sentences = 0
        /\ result.slide_count = TitleSlotAndSummarySlot

\* C4 as claimed: for every non-empty text the returned slide_count is the
\* number of returned topics plus 2.
C4_SlideCountIsTopicsPlusTwo ==
    (pc = "done" /\ text # <<>>) =>
        result.slide_count = Len(result.topics) + TitleSlotAndSummarySlot

\* C5: every returned topic has at most MAX_BULLETS_PER_SLIDE bullets, and
\* the bullets of a topic whose cluster has at most that many sentences are
\* the sentences of the cluster in their order.
C5_BulletsBounded ==
    pc = "done" =>
        \A i \in DOMAIN result.topics :
            LET t == result.topics[i]
            IN  /\ Len(t.bullets) <= MAX_BULLETS_PER_SLIDE
                /\ Len(ClusterOf(t.id).sentences) <= MAX_BULLETS_PER_SLIDE
                       => t.bullets = ClusterOf(t.id).sentences

\* C5 witness: a topic cut down to the maximum
C5_Witness ==
    /\ pc = "done"
    /\ \E i \in DOMAIN result.topics :
           /\ result.topics[i].sentence_count > MAX_BULLETS_PER_SLIDE
           /\ Len(result.topics[i].bullets) = MAX_BULLETS_PER_SLIDE

\* the position of the first sentence that cluster_sentences put in the
\* cluster id
FirstDiscovery(id) ==
    IF labels = <<>> THEN 1
    ELSE SetMin({k \in DOMAIN labels :
                    id = IF labels[k] = NoiseLabel
                         THEN MaxLabel(labels) + 1
                         ELSE labels[k]})

\* C7 as claimed: the returned topics are ordered by sentence_count
\* descending and topics of equal sentence_count by ascending cluster id.
C7_TiesByAscendingId ==
    pc = "done" =>
        \A i, j \in DOMAIN result.topics :
            i < j =>
                /\ result.topics[i].sentence_count >= result.topics[j].sentence_count
                /\ result.topics[i].sentence_count = result.topics[j].sentence_count
                       => result.topics[i].id < result.topics[j].id

\* C7 as amended: the returned topics are ordered by sentence_count
\* descending and topics of equal sentence_count in the order in which
\* their clusters were first met in the sentence list (whatever their ids).
C7_TiesByFirstDiscovery ==
    pc = "done" =>
        \A i, j \in DOMAIN result.topics :
            i < j =>
                /\ result.topics[i].sentence_count >= result.topics[j].sentence_count
                /\ result.topics[i].sentence_count = result.topics[j].sentence_count
                       => FirstDiscovery(result.topics[i].id)
                              < FirstDiscovery(result.topics[j].id)

\* C7 witness: two topics of equal size whose ids descend, before a
\* smaller one
C7_Witness ==
    /\ pc = "done"
    /\ Len(result.topics) >= 3
    /\ result.topics[2].sentence_count > result.topics[3].sentence_count
    /\ \E i, j \in DOMAIN result.topics :
           /\ i < j
           /\ result.topics[i].sentence_count = result.topics[j].sentence_count
           /\ result.topics[i].id > result.topics[j].id

\* C8 as claimed: text that segments to exactly 3 sentences gives one
\* topic whose bullets are the 3 sentences in order, and slide_count 3.
C8_ThreeSentencesOneTopic ==
    (pc = "done" /\ Len(sentences) = 3) =>
        /\ Len(result.topics) = 1
        /\ result.topics[1].bullets = sentences
        /\ result.slide_count = 3

\* C8 as amended: for text that segments to exactly 3 sentences, the
\* density-based method gives one cluster of all 3 (one topic whose bullets
\* are the 3 sentences in order, slide_count 3); the fixed-k method asks for
\* 2 clusters and process_text returns 1 or 2 topics, slide_count being the
\* number of topics plus 2.
C8_ThreeSentencesByMethod ==
    (pc = "done" /\ Len(sentences) = 3) =>
        /\ UsesHdbscan =>
               /\ Len(result.topics) = 1
               /\ result.topics[1].bullets = sentences
               /\ result.slide_count = 3
        /\ ~UsesHdbscan =>
               /\ Len(result.topics) \in {1, 2}
               /\ result.slide_count = Len(result.topics) + TitleSlotAndSummarySlot

\* C8 witness: three distinct sentences, density-based method, one topic
C8_Witness ==
    /\ pc = "done"
    /\ UsesHdbscan
    /\ Len(sentences) = 3
    /\ Cardinality(RangeOf(sentences)) >= 2
    /\ Len(result.topics) = 1
    /\ Len(result.topics[1].bullets) = 3

(***************************************************************************)
(* The fragments of a text, by position: a fragment starts at a            *)
(* non-terminator that is first or follows a terminator, and runs to the   *)
(* next terminator or the end.                                             *)
(***************************************************************************)
FragmentStarts(t) ==
    {i \in 1..Len(t) : ~IsTerminator(t[i]) /\ (i = 1 \/ IsTerminator(t[i - 1]))}

FragmentEnd(t, i) ==
    SetMin({j \in i..Len(t) : j = Len(t) \/ IsTerminator(t[j + 1])})

TokensIn(t, i, j) ==
    Cardinality({k \in i..j : ~IsSpace(t[k]) /\ (k = i \/ IsSpace(t[k - 1]))})

UsableStarts(t) ==
    {i \in FragmentStarts(t) : TokensIn(t, i, FragmentEnd(t, i)) >= 3}

Trimmed(t, i) ==
    LET inside == {k \in i..FragmentEnd(t, i) : ~IsSpace(t[k])}
    IN  SubSeq(t, SetMin(inside), SetMax(inside))

\* C9: split_sentences returns, in text order, exactly the trimmed
\* fragments between runs of terminators that have at least 3 tokens; a
\* text with no such fragment gives the empty result (no topics, zero
\* total_sentences).
C9_SentencesAreUsableFragments ==
    /\ pc = "segmented" =>
           LET usable == UsableStarts(cleaned)
           IN  /\ Len(sentences) = Cardinality(usable)
               /\ \A i \in usable :
                      sentences[1 + Cardinality({q \in usable : q < i})]
                          = Trimmed(cleaned, i)
    /\ pc = "done" =>
           \/ /\ result.topics = <<>>
              /\ result.total_sentences = 0
           \/ \E i \in FragmentStarts(cleaned) :
                  TokensIn(cleaned, i, FragmentEnd(cleaned, i)) >= 3

\* C9 witness: "hi x." has one fragment of two tokens and gives the empty
\* result
C9_Witness ==
    /\ pc = "done"
    /\ text = PieceTwoWords
    /\ FragmentStarts(cleaned) # {}
    /\ sentences = <<>>
    /\ result.topics = <<>>

TrailingPunctuation == {".", ",", "!", "?"}

RECURSIVE SumOfLens(_)
SumOfLens(ws) == IF ws = <<>> THEN 0 ELSE Len(ws[1]) + SumOfLens(Tail(ws))

\* C6: a sentence of at most 6 tokens comes back with nothing but its
\* trailing '. , ! ?' characters removed; a longer one comes back as its
\* first 6 tokens, single spaces between them, and "..." after them; the
\* title never has more than 6 tokens.
C6_ShortenedTitle ==
    pc = "shortened" =>
        LET x == text
            y == result.title
            n == TokensIn(x, 1, Len(x))
        IN  /\ n <= 6 =>
                   /\ Len(y) <= Len(x)
                   /\ y = SubSeq(x, 1, Len(y))
                   /\ \A k \in (Len(y) + 1)..Len(x) : x[k] \in TrailingPunctuation
                   /\ y # <<>> => y[Len(y)] \notin TrailingPunctuation
            /\ n > 6 =>
                   /\ Len(y) = SumOfLens(SubSeq(Words(x), 1, 6)) + 5 + 3
                   /\ SubSeq(y, Len(y) - 2, Len(y)) = <<".", ".", ".">>
                   /\ Words(SubSeq(y, 1, Len(y) - 3)) = SubSeq(Words(x), 1, 6)
            /\ TokensIn(y, 1, Len(y)) <= 6

\* C6 witness: seven tokens separated by more than one whitespace character
C6_Witness ==
    /\ pc = "shortened"
    /\ Len(Words(text)) = 7
    /\ \E k \in DOMAIN text : text[k] = "\t"
    /\ Len(Words(result.title)) = 6

C11_FailurePropagates ==
    /\ pc = "raised" =>
           /\ result.raised
           /\ result.value \in {"EmbeddingFailure", "ClusteringFailure",
                                "IndexError", "ValueError"}
    /\ (pc = "done" /\ sentences # <<>>) =>
           /\ "topics" \in DOMAIN result
           /\ Len(result.topics) = Len(clusters)
           /\ \A i \in DOMAIN clusters :
                  /\ ~TopicOf(clusters[i], sentences, embeddings, argsortTies).raised
                  /\ \E k \in DOMAIN result.topics :
                         /\ result.topics[k].id = clusters[i].id
                         /\ result.topics[k].sentence_count = Len(clusters[i].sentences)

\* C11 witness: the synthesis of one cluster raised while another cluster's
\* would have succeeded, and the call raised
C11_Witness ==
    /\ pc = "raised"
    /\ result = Raised("IndexError")
    /\ \E i \in DOMAIN clusters :
           ~TopicOf(clusters[i], sentences, embeddings, argsortTies).raised
    /\ \E i \in DOMAIN clusters :
           TopicOf(clusters[i], sentences, embeddings, argsortTies).raised

\* C12: for every cluster the embedding rows handed to generate_topic_title
\* and rank_bullets are as many as the cluster's sentences, row i is the
\* embedding of the cluster's i-th sentence, and no synthesis indexes outside
\* the cluster's sentence list (stated as written; the code does not meet it
\* when one sentence text lies in two clusters).
C12_RowsMatchClusterSentences ==
    /\ AfterClustering =>
           \A c \in DOMAIN clusters :
               LET rows == TakeRows(embeddings,
                                    ClusterIndices(sentences, clusters[c].sentences))
               IN  /\ Len(rows) = Len(clusters[c].sentences)
                   /\ \A i \in DOMAIN rows : rows[i] = model[clusters[c].sentences[i]]
    /\ pc = "raised" => result # Raised("IndexError")

\* the sentences at the positions that the clusterer labelled l, in order
SentencesLabelled(l) ==
    LET at == SelectSeq([i \in 1..Len(labels) |-> i], LAMBDA i : labels[i] = l)
    IN  [k \in 1..Len(at) |-> sentences[at[k]]]

\* C14: when the clusterer labels some sentences as noise, exactly one
\* cluster has the id max(labels) + 1, it holds exactly the noise sentences
\* in order, the id is non-negative and is no genuine label, and every
\* genuine cluster holds exactly the sentences of its own label; this
\* includes the labelling where every sentence is noise.
C14_NoiseInOwnCluster ==
    (AfterClustering /\ \E i \in DOMAIN labels : labels[i] = NoiseLabel) =>
        LET noise_id == MaxLabel(labels) + 1
        IN  /\ noise_id >= 0
            /\ \A i \in DOMAIN labels : labels[i] # noise_id
            /\ Cardinality({c \in DOMAIN clusters : clusters[c].id = noise_id}) = 1
            /\ ClusterOf(noise_id).sentences = SentencesLabelled(NoiseLabel)
            /\ \A c \in DOMAIN clusters :
                   /\ clusters[c].id >= 0
                   /\ clusters[c].id # noise_id =>
                          clusters[c].sentences = SentencesLabelled(clusters[c].id)

\* C14 witness: a clustering with noise next to two genuine clusters, and
\* (in another run) a clustering where every sentence is noise
C14_Witness ==
    /\ AfterClustering
    /\ \E i \in DOMAIN labels : labels[i] = NoiseLabel
    /\ MaxLabel(labels) = 1
    /\ Len(clusters) = 3

C14_WitnessAllNoise ==
    /\ AfterClustering
    /\ Len(labels) >= 2
    /\ \A i \in DOMAIN labels : labels[i] = NoiseLabel
    /\ Len(clusters) = 1

\* C19: within one call the stages run in the order clean, segment, embed,
\* cluster, synthesize, sort, each entered only from its predecessor (hence
\* at most once); a call whose segmentation gave no sentence goes straight to
\* its return without the encoder or the clusterer being consulted, and the
\* embedding stage is entered only with a non-empty sentence list; a call
\* that returned or raised takes no further step.
C19_StagesInOrder ==
    [][ /\ pc = "start" => pc' = "cleaned"
        /\ pc = "cleaned" => pc' = "segmented"
        /\ (pc = "segmented" /\ sentences = <<>>) =>
               /\ pc' = "done"
               /\ model' = model /\ fits' = fits
               /\ embeddings' = <<>> /\ clusters' = <<>>
        /\ (pc = "segmented" /\ sentences # <<>>) => pc' \in {"embedded", "raised"}
        /\ pc' = "embedded" => (pc = "segmented" /\ sentences # <<>>)
        /\ pc = "embedded" => pc' \in {"clustered", "raised"}
        /\ pc = "clustered" => pc' \in {"synthesized", "raised"}
        /\ pc = "synthesized" => pc' = "done"
        /\ pc \notin {"done", "raised"}
      ]_vars

\* C19 witness: a call on a non-blank text whose segmentation gave no
\* sentence has returned, and neither the encoder nor the clusterer ran
C19_Witness ==
    /\ pc = "done"
    /\ \E i \in DOMAIN text : ~IsSpace(text[i])
    /\ sentences = <<>>
    /\ model = <<>> /\ fits = <<>> /\ embeddings = <<>> /\ clusters = <<>>

WellFormedCluster == sentences # <<>> /\ Len(sentences) = Len(embeddings)

\* C13: synthesis called on a cluster with no sentence, or with a number of
\* embedding rows other than its number of sentences, raises from the title
\* step and from the bullet step (stated as written; the code does not meet
\* it).
C13_MalformedClusterRaises ==
    (pc = "synthesis returned" /\ ~WellFormedCluster) =>
        /\ result.title.raised
        /\ result.bullets.raised

\* the cluster's centroid up to a positive factor, which cosine similarity
\* ignores
Centroid == VecSum(embeddings)

\* sentence i is at least as similar to the centroid as every other one
MostSimilar(i) ==
    \A j \in DOMAIN embeddings : ~SimLess(embeddings[i], embeddings[j], Centroid)

SameSimilarity(i, j) ==
    /\ ~SimLess(embeddings[i], embeddings[j], Centroid)
    /\ ~SimLess(embeddings[j], embeddings[i], Centroid)

\* C17: on a cluster of two or more sentences with one row each,
\* generate_topic_title returns the shortened form of the earliest sentence
\* among those of maximal similarity to the centroid; on a cluster of one
\* sentence, that sentence shortened.
C17_TitleIsMostCentralSentence ==
    (pc = "synthesis returned" /\ WellFormedCluster) =>
        IF Len(sentences) = 1
        THEN result.title = Returned(_shorten_sentence(sentences[1], DefaultMaxWords))
        ELSE \E i \in DOMAIN sentences :
                 /\ MostSimilar(i)
                 /\ \A j \in 1..(i - 1) : ~MostSimilar(j)
                 /\ result.title =
                        Returned(_shorten_sentence(sentences[i], DefaultMaxWords))

\* C17 witness: two sentences tie for the maximum, neither is the first of
\* the cluster, and the title is the earlier one shortened
C17_Witness ==
    /\ pc = "synthesis returned"
    /\ WellFormedCluster
    /\ \E i, j \in DOMAIN sentences :
           /\ 1 < i /\ i < j
           /\ MostSimilar(i) /\ MostSimilar(j)
           /\ ~MostSimilar(1)
           /\ result.title =
                  Returned(_shorten_sentence(sentences[i], DefaultMaxWords))

\* the position of a bullet in the cluster (the sentences are distinct)
PositionOf(b) == CHOOSE i \in DOMAIN sentences : sentences[i] = b

\* exactly max_bullets distinct sentences of the cluster, most similar
\* first, none left out that is strictly more similar than one returned
IsTopBullets(bs) ==
    /\ Len(bs) = MAX_BULLETS_PER_SLIDE
    /\ \A k \in DOMAIN bs : bs[k] \in RangeOf(sentences)
    /\ \A k, l \in DOMAIN bs : k # l => bs[k] # bs[l]
    /\ \A k, l \in DOMAIN bs :
           k < l => ~SimLess(embeddings[PositionOf(bs[k])],
                             embeddings[PositionOf(bs[l])], Centroid)
    /\ \A i \in DOMAIN sentences :
           sentences[i] \notin RangeOf(bs) =>
               \A k \in DOMAIN bs :
                   ~SimLess(embeddings[PositionOf(bs[k])], embeddings[i], Centroid)

\* C18 as written: on a cluster of more than max_bullets sentences
\* rank_bullets returns the top max_bullets sentences, most similar first,
\* and bullets of equal similarity are in the order of their original index.
C18_TopBulletsTiesByIndex ==
    (pc = "synthesis returned" /\ WellFormedCluster
        /\ Len(sentences) > MAX_BULLETS_PER_SLIDE) =>
        /\ ~result.bullets.raised
        /\ IsTopBullets(result.bullets.value)
        /\ \A k, l \in DOMAIN result.bullets.value :
               (k < l /\ SameSimilarity(PositionOf(result.bullets.value[k]),
                                        PositionOf(result.bullets.value[l])))
               => PositionOf(result.bullets.value[k]) < PositionOf(result.bullets.value[l])

\* C18 amended: on a cluster of more than max_bullets sentences rank_bullets
\* returns the top max_bullets sentences, most similar first; bullets of
\* equal similarity are in the reverse of the order argsort left them in,
\* which is descending original index when argsort keeps equal scores in
\* index order.
C18_TopBulletsTiesReversed ==
    (pc = "synthesis returned" /\ WellFormedCluster
        /\ Len(sentences) > MAX_BULLETS_PER_SLIDE) =>
        /\ ~result.bullets.raised
        /\ IsTopBullets(result.bullets.value)
        /\ \A k, l \in DOMAIN result.bullets.value :
               (k < l /\ SameSimilarity(PositionOf(result.bullets.value[k]),
                                        PositionOf(result.bullets.value[l])))
               => IF argsortTies = "asc"
                  THEN PositionOf(result.bullets.value[k]) >
                       PositionOf(result.bullets.value[l])
                  ELSE PositionOf(result.bullets.value[k]) <
                       PositionOf(result.bullets.value[l])

\* C18 witness: argsort keeps equal scores in index order, two returned
\* bullets have the same similarity, and a sentence strictly less similar
\* than a returned one was left out
C18_Witness ==
    /\ pc = "synthesis returned"
    /\ WellFormedCluster
    /\ Len(sentences) > MAX_BULLETS_PER_SLIDE
    /\ argsortTies = "asc"
    /\ ~result.bullets.raised
    /\ \E k, l \in DOMAIN result.bullets.value :
           /\ k < l
           /\ SameSimilarity(PositionOf(result.bullets.value[k]),
                             PositionOf(result.bullets.value[l]))
    /\ \E i \in DOMAIN sentences :
           /\ sentences[i] \notin RangeOf(result.bullets.value)
           /\ \E k \in DOMAIN result.bullets.value :
                  SimLess(embeddings[i],
                          embeddings[PositionOf(result.bullets.value[k])], Centroid)

\* C16: on the KMeans branch with n >= 2 sentences the count handed to
\* KMeans is, when the caller gave none, n div 5 kept within 2..MAX_TOPICS
\* and then capped by n, which lies within 2..min(MAX_TOPICS, n); when the
\* caller gave a target it is min(target, n).
C16_RequestedClusterCount ==
    pc = "cluster count known" =>
        LET n == Len(sentences)
            k == result.n_clusters
            fifth == n \div 5
            auto == IF fifth < 2 THEN 2
                    ELSE IF fifth > MAX_TOPICS THEN MAX_TOPICS ELSE fifth
        IN  IF n_clusters = None
            THEN /\ k = (IF auto < n THEN auto ELSE n)
                 /\ 2 <= k /\ k <= MAX_TOPICS /\ k <= n
            ELSE k = (IF n_clusters.value < n THEN n_clusters.value ELSE n)

\* C16 witness: enough sentences for the default to hit MAX_TOPICS, and (in
\* another run) a given target above the number of sentences
C16_Witness ==
    /\ pc = "cluster count known"
    /\ n_clusters = None
    /\ Len(sentences) \div 5 > MAX_TOPICS
    /\ result.n_clusters = MAX_TOPICS

C16_WitnessTargetCapped ==
    /\ pc = "cluster count known"
    /\ n_clusters # None
    /\ n_clusters.value > Len(sentences)
    /\ result.n_clusters = Len(sentences)

\* C15: the number of topics that process_text returns is at most
\* MAX_TOPICS (stated as written; the code does not meet it under HDBSCAN).
C15_TopicsAtMostMaxTopics ==
    (pc = "done" /\ sentences # <<>>) => Len(result.topics) <= MAX_TOPICS

====
